---- MODULE Spec2Model ----
(***************************************************************************)
(* Scallop Liquidator Lite: one CLI invocation (main), the two-tier        *)
(* obligation query (queryObligation -> parseObligationFromSDK or          *)
(* queryObligationFromChain), the profit estimate and the two builder      *)
(* calls (liquidate, repayBadDebt).                                        *)
(*                                                                         *)
(* Units.  Risk levels are in percent (riskLevel 1.0 is 100, the sentinel  *)
(* 999 is 99900).  USD values are in cents.  Raw amounts are base units    *)
(* (integers).  A coin type string is modelled as the list of its          *)
(* '::'-separated segments, which is what split('::') returns.             *)
(***************************************************************************)
EXTENDS Integers, Sequences, FiniteSets, TLC

\* ------------------------------------------------------------------ bounds
\* Longest debt / collateral list: entries of an SDK map, keys of a table,
\* child fields returned by getDynamicFields.
MaxEntries == 2

\* ----------------------------------------------------------------- strings
\* String.prototype.toLowerCase on the strings the model uses.
ToLowerCase(s) ==
    CASE s = "USDC" -> "usdc"
      [] s = "wUSDC" -> "wusdc"
      [] s = "SUI" -> "sui"
      [] s = "Sui" -> "sui"
      [] s = "COIN" -> "coin"
      [] s = "Coin" -> "coin"
      [] s = "FOO" -> "foo"
      [] s = "BAZ" -> "baz"
      [] s = "Bar" -> "bar"
      [] s = "NOSEP" -> "nosep"
      [] s = "QUX" -> "qux"
      [] s = "Pool" -> "pool"
      [] s = "Vault" -> "vault"
      [] OTHER -> s

\* String.prototype.toUpperCase on the strings the model uses.
ToUpperCase(s) ==
    CASE s = "usdc" -> "USDC"
      [] s = "wusdc" -> "WUSDC"
      [] s = "wUSDC" -> "WUSDC"
      [] s = "sui" -> "SUI"
      [] s = "Sui" -> "SUI"
      [] s = "coin" -> "COIN"
      [] s = "foo" -> "FOO"
      [] s = "bar" -> "BAR"
      [] OTHER -> s

\* ------------------------------------------------------------ coin registry
\* COIN_DECIMALS, restricted to the names the model uses.
COIN_DECIMALS ==
    [n \in {"usdc", "wusdc", "sui"} |->
        CASE n = "usdc" -> 6 [] n = "wusdc" -> 6 [] n = "sui" -> 9]

\* Coin type strings (package address abbreviated), as segment lists.
USDC_TYPE == <<"dba34672", "usdc", "USDC">>
WUSDC_TYPE == <<"5d4b3025", "coin", "COIN">>
SUI_TYPE == <<"00000002", "sui", "SUI">>
FOO_TYPE == <<"abcd0001", "Coin", "FOO">>
BAZ_TYPE == <<"abcd0002", "Bar", "BAZ">>
NOSEP_TYPE == <<"NOSEP">>
\* The empty string, and strings with an empty segment ("abcd0003::coin::",
\* "abcd0004::::QUX"), as split('::') returns them.
EMPTY_TYPE == <<"">>
NOSTRUCT_TYPE == <<"abcd0003", "coin", "">>
NOMODULE_TYPE == <<"abcd0004", "", "QUX">>
\* A type with type arguments: "abcd0005::Pool::Share<00000002::sui::SUI>".
GENERIC_TYPE == <<"abcd0005", "Pool", "Share<00000002", "sui", "SUI>">>
\* An unknown type whose module is no table name but whose struct is one.
VAULT_TYPE == <<"abcd0006", "Vault", "SUI">>

\* KNOWN_COIN_TYPES, restricted to three of its eight entries.
KNOWN_COIN_TYPES ==
    [t \in {USDC_TYPE, WUSDC_TYPE, SUI_TYPE} |->
        CASE t = USDC_TYPE -> [name |-> "USD Coin", symbol |-> "USDC", sdkName |-> "usdc"]
          [] t = WUSDC_TYPE -> [name |-> "Wormhole USDC", symbol |-> "wUSDC", sdkName |-> "wusdc"]
          [] t = SUI_TYPE -> [name |-> "Sui", symbol |-> "SUI", sdkName |-> "sui"]]

\* The template string `Unknown (${structName})`.
UnknownName(structName) == <<"Unknown (", structName, ")">>

\* The whole type string of a segment list with no separator in it.
Whole(coinTypeFull) == coinTypeFull[1]

extractCoinInfo(coinTypeFull) ==
    IF coinTypeFull \in DOMAIN KNOWN_COIN_TYPES
    THEN [name |-> <<KNOWN_COIN_TYPES[coinTypeFull].name>>,
          symbol |-> KNOWN_COIN_TYPES[coinTypeFull].symbol,
          sdkName |-> KNOWN_COIN_TYPES[coinTypeFull].sdkName]
    ELSE IF Len(coinTypeFull) >= 3
    THEN IF ToLowerCase(coinTypeFull[2]) = "coin"
         THEN [name |-> UnknownName(coinTypeFull[3]),
               symbol |-> coinTypeFull[3],
               sdkName |-> ToLowerCase(coinTypeFull[3])]
         ELSE [name |-> <<coinTypeFull[3]>>,
               symbol |-> coinTypeFull[3],
               sdkName |-> ToLowerCase(coinTypeFull[2])]
    ELSE [name |-> <<Whole(coinTypeFull)>>,
          symbol |-> Whole(coinTypeFull),
          sdkName |-> Whole(coinTypeFull)]

\* Mutant: the symbol is not tried.
DecimalsOr_NameOnly(a, b, dflt) ==
    IF a \in DOMAIN COIN_DECIMALS THEN COIN_DECIMALS[a] ELSE dflt

\* COIN_DECIMALS[a] || COIN_DECIMALS[b] || dflt (no table entry is 0).
DecimalsOr(a, b, dflt) ==
    IF a \in DOMAIN COIN_DECIMALS THEN COIN_DECIMALS[a]
    ELSE IF b \in DOMAIN COIN_DECIMALS THEN COIN_DECIMALS[b]
    ELSE dflt

DEBT_DEFAULT_DECIMALS == 6
COLLATERAL_DEFAULT_DECIMALS == 9


\* ------------------------------------------------------------ record helpers
\* The string '0x' + coinTypeFull.
Hex0x(coinTypeFull) == [prefix |-> "0x", path |-> coinTypeFull]

\* rawAmount / Math.pow(10, decimals), kept as the exact quotient.
HumanAmount(rawAmount, decimals) == [raw |-> rawAmount, decimals |-> decimals]

\* Risk levels in percent.
LIQUIDATION_THRESHOLD == 100
CHAIN_BAD_DEBT_RISK == 99900
CHAIN_HAS_DEBT_RISK == 100

\* An optional value: <<>> is null / undefined, <<v>> is v.
None == <<>>
Some(v) == <<v>>
IsSome(o) == Len(o) > 0
Get(o) == o[1]

\* liquidator.ts 136-148: one debt of the SDK map as a DebtInfo.
SdkDebtInfo(debt) ==
    [coinType |-> debt.coinType,
     coinName |-> debt.coinName,
     coinSymbol |-> ToUpperCase(debt.coinName),
     coinDisplayName |-> <<ToUpperCase(debt.coinName)>>,
     amount |-> debt.borrowedAmount,
     amountCoin |-> debt.borrowedCoin,
     valueUsd |-> debt.borrowedValue]

\* liquidator.ts 156-167: one collateral of the SDK map as a CollateralInfo.
SdkCollateralInfo(collateral) ==
    [coinType |-> collateral.coinType,
     coinName |-> collateral.coinName,
     coinSymbol |-> ToUpperCase(collateral.coinName),
     coinDisplayName |-> <<ToUpperCase(collateral.coinName)>>,
     amount |-> collateral.depositedAmount,
     amountCoin |-> collateral.depositedCoin,
     valueUsd |-> collateral.depositedValue]

\* The loop over Object.entries(map) that keeps the non-null values, in order.
RECURSIVE SdkDebtList(_)
SdkDebtList(slots) ==
    IF slots = <<>> THEN <<>>
    ELSE IF IsSome(Head(slots))
    THEN <<SdkDebtInfo(Get(Head(slots)))>> \o SdkDebtList(Tail(slots))
    ELSE SdkDebtList(Tail(slots))

RECURSIVE SdkCollateralList(_)
SdkCollateralList(slots) ==
    IF slots = <<>> THEN <<>>
    ELSE IF IsSome(Head(slots))
    THEN <<SdkCollateralInfo(Get(Head(slots)))>> \o SdkCollateralList(Tail(slots))
    ELSE SdkCollateralList(Tail(slots))

\* Mutant: liquidatable only strictly above the threshold.
SdkIsLiquidatable_Strict(riskLevel) == riskLevel > LIQUIDATION_THRESHOLD

\* isLiquidatable of the SDK path (liquidator.ts 180).
SdkIsLiquidatable(riskLevel) == riskLevel >= LIQUIDATION_THRESHOLD

parseObligationFromSDK(obligationAccount) ==
    [obligationId |-> obligationAccount.obligationId,
     debts |-> SdkDebtList(obligationAccount.debts),
     collaterals |-> SdkCollateralList(obligationAccount.collaterals),
     riskLevel |-> obligationAccount.totalRiskLevel,
     totalBorrowedValueWithWeight |-> obligationAccount.totalBorrowedValueWithWeight,
     totalRequiredCollateralValue |-> obligationAccount.totalRequiredCollateralValue,
     isLiquidatable |-> SdkIsLiquidatable(obligationAccount.totalRiskLevel)]

\* Mutant: the debt is priced at one cent per base unit.
ChainDebtInfo_Priced(content) ==
    LET coinInfo == extractCoinInfo(content.name)
        decimals == DecimalsOr(ToLowerCase(coinInfo.sdkName),
                               ToLowerCase(coinInfo.symbol),
                               DEBT_DEFAULT_DECIMALS)
    IN [coinType |-> Hex0x(content.name),
        coinName |-> coinInfo.sdkName,
        coinSymbol |-> coinInfo.symbol,
        coinDisplayName |-> coinInfo.name,
        amount |-> content.amount,
        amountCoin |-> HumanAmount(content.amount, decimals),
        valueUsd |-> content.amount]

\* liquidator.ts 240-253: a decoded debt child as a DebtInfo.
ChainDebtInfo(content) ==
    LET coinInfo == extractCoinInfo(content.name)
        decimals == DecimalsOr(ToLowerCase(coinInfo.sdkName),
                               ToLowerCase(coinInfo.symbol),
                               DEBT_DEFAULT_DECIMALS)
    IN [coinType |-> Hex0x(content.name),
        coinName |-> coinInfo.sdkName,
        coinSymbol |-> coinInfo.symbol,
        coinDisplayName |-> coinInfo.name,
        amount |-> content.amount,
        amountCoin |-> HumanAmount(content.amount, decimals),
        valueUsd |-> 0]

\* liquidator.ts 285-298: a decoded collateral child as a CollateralInfo.
ChainCollateralInfo(content) ==
    LET coinInfo == extractCoinInfo(content.name)
        decimals == DecimalsOr(ToLowerCase(coinInfo.sdkName),
                               ToLowerCase(coinInfo.symbol),
                               COLLATERAL_DEFAULT_DECIMALS)
    IN [coinType |-> Hex0x(content.name),
        coinName |-> coinInfo.sdkName,
        coinSymbol |-> coinInfo.symbol,
        coinDisplayName |-> coinInfo.name,
        amount |-> content.amount,
        amountCoin |-> HumanAmount(content.amount, decimals),
        valueUsd |-> 0]

\* The guard `obj.data?.content && 'fields' in obj.data.content`.
ChildHasFields(obj) == obj.shape \in {"ok", "malformed"}

\* liquidator.ts 306.
ChainRiskLevel(hasDebt, hasCollateral) ==
    IF hasDebt /\ ~hasCollateral THEN CHAIN_BAD_DEBT_RISK
    ELSE IF hasDebt THEN CHAIN_HAS_DEBT_RISK
    ELSE 0

\* Mutant: the threshold test alone, as on the SDK path.
ChainIsLiquidatable_RiskOnly(hasDebt, hasCollateral, riskLevel) ==
    riskLevel >= LIQUIDATION_THRESHOLD

\* liquidator.ts 315.
ChainIsLiquidatable(hasDebt, hasCollateral, riskLevel) ==
    hasDebt /\ hasCollateral /\ riskLevel >= LIQUIDATION_THRESHOLD

\* liquidator.ts 303-316: the record queryObligationFromChain returns.
ChainObligationInfo(id, debtList, collateralList) ==
    LET hasDebt == Len(debtList) > 0
        hasCollateral == Len(collateralList) > 0
        riskLevel == ChainRiskLevel(hasDebt, hasCollateral)
    IN [obligationId |-> id,
        debts |-> debtList,
        collaterals |-> collateralList,
        riskLevel |-> riskLevel,
        totalBorrowedValueWithWeight |-> 0,
        totalRequiredCollateralValue |-> 0,
        isLiquidatable |-> ChainIsLiquidatable(hasDebt, hasCollateral, riskLevel)]


\* ------------------------------------------------------- the CLI's helpers
\* The obligation ids the model runs on (66-character 0x... strings).
OBLIGATION_A == "0xaaaa"
OBLIGATION_B == "0xbbbb"

\* obligationId.startsWith('0x') && obligationId.length === 66.
IsValidObligationId(id) == id \in {OBLIGATION_A, OBLIGATION_B}

\* args.includes(x).
Includes(list, x) == \E i \in 1..Len(list) : list[i] = x

parseMode(list) ==
    IF Includes(list, "--force") \/ Includes(list, "-f") THEN "force"
    ELSE IF Includes(list, "--execute") \/ Includes(list, "-e") THEN "execute"
    ELSE "check"

\* Mutant: any record with a debt counts as bad debt.
IsBadDebt_AnyDebt(info) == Len(info.debts) > 0

\* part_004 92.
IsBadDebt(info) == Len(info.debts) > 0 /\ Len(info.collaterals) = 0

\* Mutant: the 50% cap forgotten.
LiquidationRepayAmount_Full(amount) == amount

\* BigInt(Math.floor(primaryDebt.amount * 0.5)), part_004 190.
LiquidationRepayAmount(amount) == amount \div 2

\* Mutant: the 50% cap applied to bad debt too.
BadDebtRepayAmount_Half(amount) == amount \div 2

\* BigInt(Math.floor(primaryDebt.amount * repayPercentage)), part_004 122-123.
BadDebtRepayAmount(amount) == amount

\* Array.prototype.find on coinName, compared in lower case: the first index
\* that matches, 0 when none does.
FindCoin(entries, coinName) ==
    LET hits == {i \in 1..Len(entries) :
                    ToLowerCase(entries[i].coinName) = ToLowerCase(coinName)}
    IN IF hits = {} THEN 0 ELSE CHOOSE i \in hits : \A j \in hits : i <= j

Min(a, b) == IF a <= b THEN a ELSE b

\* The default liquidationBonus 0.05, in percent.
LIQUIDATION_BONUS_PCT == 5
\* The floor 0.1 USD of `estimatedProfitUsd > 0.1`, in units of 1/20000 USD.
PROFIT_FLOOR == 2000

\* Mutant: the 50% cap on the debt side forgotten (in these units the factor 2
\* on the collateral side goes).
EstimatedProfit_NoHalf(debtUsd, collateralUsd, bonusPct) ==
    Min(debtUsd, collateralUsd) * bonusPct

\* Math.min(debt.valueUsd * 0.5, collateral.valueUsd) * liquidationBonus, exact:
\* with the values in cents and the bonus in percent it is
\* min(d, 2c) * bonusPct units of 1/20000 USD.
EstimatedProfit(debtUsd, collateralUsd, bonusPct) ==
    Min(debtUsd, 2 * collateralUsd) * bonusPct

\* Mutant: an estimate of zero counts as profitable.
estimateLiquidationProfit_NoFloor(info, debtCoinName, collateralCoinName) ==
    LET d == FindCoin(info.debts, debtCoinName)
        c == FindCoin(info.collaterals, collateralCoinName)
    IN IF d = 0 \/ c = 0
       THEN [profitable |-> FALSE, estimatedProfitUsd |-> 0]
       ELSE LET p == EstimatedProfit(info.debts[d].valueUsd,
                                     info.collaterals[c].valueUsd,
                                     LIQUIDATION_BONUS_PCT)
            IN [profitable |-> p >= 0, estimatedProfitUsd |-> p]

\* liquidator.ts 547-574.
estimateLiquidationProfit(info, debtCoinName, collateralCoinName) ==
    LET d == FindCoin(info.debts, debtCoinName)
        c == FindCoin(info.collaterals, collateralCoinName)
    IN IF d = 0 \/ c = 0
       THEN [profitable |-> FALSE, estimatedProfitUsd |-> 0]
       ELSE LET p == EstimatedProfit(info.debts[d].valueUsd,
                                     info.collaterals[c].valueUsd,
                                     LIQUIDATION_BONUS_PCT)
            IN [profitable |-> p > PROFIT_FLOOR, estimatedProfitUsd |-> p]

\* ------------------------------------------------------------------ inputs
\* Command lines (process.argv.slice(2)).
ArgvOptions ==
    {<<>>, <<"--help">>, <<"garbage", "--force">>,
     <<OBLIGATION_A>>, <<OBLIGATION_B, "--check">>,
     <<OBLIGATION_A, "--execute">>, <<OBLIGATION_B, "-e">>,
     <<OBLIGATION_A, "-f">>, <<OBLIGATION_B, "--execute", "--force">>}

\* Values of the SDK's debts map.
SdkDebts ==
    {[coinType |-> Hex0x(USDC_TYPE), coinName |-> "usdc",
      borrowedAmount |-> 120000001, borrowedCoin |-> HumanAmount(120000001, 6),
      borrowedValue |-> 12000],
     [coinType |-> Hex0x(SUI_TYPE), coinName |-> "sui",
      borrowedAmount |-> 1, borrowedCoin |-> HumanAmount(1, 9),
      borrowedValue |-> 100]}

\* Values of the SDK's collaterals map.
SdkCollaterals ==
    {[coinType |-> Hex0x(SUI_TYPE), coinName |-> "sui",
      depositedAmount |-> 1005, depositedCoin |-> HumanAmount(1005, 9),
      depositedValue |-> 15075],
     [coinType |-> Hex0x(WUSDC_TYPE), coinName |-> "wusdc",
      depositedAmount |-> 3, depositedCoin |-> HumanAmount(3, 6),
      depositedValue |-> 150]}

\* Sequences over S of length at most n.
SeqUpTo(S, n) == UNION {[1..k -> S] : k \in 0..n}

\* A map of the SDK response: its values in insertion order, null included.
SdkSlots(S) == SeqUpTo({None} \cup {Some(e) : e \in S}, MaxEntries)

\* totalRiskLevel with the two totals it is the quotient of.
SdkRisks ==
    {[risk |-> 0, borrowed |-> 0, required |-> 0],
     [risk |-> 50, borrowed |-> 6000, required |-> 12000],
     [risk |-> 100, borrowed |-> 12000, required |-> 12000],
     [risk |-> 105, borrowed |-> 12600, required |-> 12000]}

\* What getObligationAccount can resolve to for `id`, null apart.
SdkAccounts(id) ==
    {[obligationId |-> id, debts |-> d, collaterals |-> c,
      totalRiskLevel |-> r.risk,
      totalBorrowedValueWithWeight |-> r.borrowed,
      totalRequiredCollateralValue |-> r.required] :
        d \in SdkSlots(SdkDebts), c \in SdkSlots(SdkCollaterals), r \in SdkRisks}

\* What getObject can return for a child field of a table.
\* ok: content with the expected fields; nocontent: no data or no content;
\* nofields: content without 'fields'; malformed: fields without name/value.
NoContent == [name |-> <<>>, amount |-> 0]
ChildShapes(contents) ==
    {[shape |-> "ok", content |-> c] : c \in contents}
    \cup {[shape |-> sh, content |-> NoContent] :
            sh \in {"nocontent", "nofields", "malformed"}}

DebtChildren ==
    ChildShapes({[name |-> WUSDC_TYPE, amount |-> 10591093],
                 [name |-> FOO_TYPE, amount |-> 1]})

CollateralChildren ==
    ChildShapes({[name |-> SUI_TYPE, amount |-> 1005],
                 [name |-> NOSEP_TYPE, amount |-> 7]})

\* What getObject can return for the obligation itself.
ObligationObjects ==
    {[shape |-> sh, debtKeys |-> 0, collateralKeys |-> 0] :
        sh \in {"nocontent", "notMoveObject"}}
    \cup {[shape |-> "moveObject", debtKeys |-> dk, collateralKeys |-> ck] :
            dk \in 0..MaxEntries, ck \in 0..MaxEntries}


\* ------------------------------------------------------------------- state
VARIABLES
    argv,               \* process.argv.slice(2)
    mode,               \* parseMode(args); "unset" before it ran
    pc,                 \* where main (and the call it awaits) stands
    exitCode,           \* -1 while running; process.exit's code; 0 at a normal end
    thrown,             \* the error main's catch received, "" when none
    obligationAccount,  \* what getObligationAccount resolved to (None: null)
    sdkQueries,         \* number of getObligationAccount calls
    chainCalls,         \* ids queryObligationFromChain was called with
    rpcLog,             \* the client's requests, in order
    objResponse,        \* what getObject of the obligation gave ("none" before)
    debtKeys,           \* debtKeys.length
    collateralKeys,     \* collateralKeys.length
    fieldsLeft,         \* entries of the `for (const df of ...)` loop still to do
    debtsEnumerated,    \* debtFields.data.length
    collateralsEnumerated, \* collateralFields.data.length
    debts,              \* queryObligationFromChain's local debts
    collaterals,        \* queryObligationFromChain's local collaterals
    obligationInfo,     \* what queryObligation returned (None before)
    source,             \* the path that built obligationInfo: none, sdk, chain
    estimateCalls,      \* arguments of the estimateLiquidationProfit calls
    liquidateCalls,     \* arguments of the liquidate calls
    repayCalls,         \* arguments of the repayBadDebt calls
    txSteps,            \* builder steps completed inside the current call
    leftCoin,           \* whether selectCoin returned a leftCoin (repayBadDebt)
    raised,             \* the step that threw inside the call and its message
    result              \* the LiquidationResult returned (None before)

vars ==
    <<argv, mode, pc, exitCode, thrown, obligationAccount, sdkQueries, chainCalls,
      rpcLog, objResponse, debtKeys, collateralKeys, fieldsLeft, debtsEnumerated,
      collateralsEnumerated, debts, collaterals, obligationInfo, source,
      estimateCalls, liquidateCalls, repayCalls, txSteps, leftCoin, raised,
      result>>

cliVars == <<argv, mode>>
queryVars == <<obligationAccount, sdkQueries, chainCalls, obligationInfo, source>>
chainVars ==
    <<rpcLog, objResponse, debtKeys, collateralKeys, fieldsLeft, debtsEnumerated,
      collateralsEnumerated, debts, collaterals>>
planVars == <<estimateCalls, liquidateCalls, repayCalls>>
builderVars == <<txSteps, leftCoin, raised, result>>

\* args[0].
obligationId == argv[1]

Init ==
    /\ argv \in ArgvOptions
    /\ mode = "unset"
    /\ pc = "start"
    /\ exitCode = -1
    /\ thrown = ""
    /\ obligationAccount = None
    /\ sdkQueries = 0
    /\ chainCalls = <<>>
    /\ rpcLog = <<>>
    /\ objResponse = "none"
    /\ debtKeys = 0
    /\ collateralKeys = 0
    /\ fieldsLeft = 0
    /\ debtsEnumerated = 0
    /\ collateralsEnumerated = 0
    /\ debts = <<>>
    /\ collaterals = <<>>
    /\ obligationInfo = None
    /\ source = "none"
    /\ estimateCalls = <<>>
    /\ liquidateCalls = <<>>
    /\ repayCalls = <<>>
    /\ txSteps = <<>>
    /\ leftCoin = FALSE
    /\ raised = None
    /\ result = None

\* process.exit(code).
Exit(code) ==
    /\ pc' = "exited"
    /\ exitCode' = code

\* An error reaching main's catch (part_004 213-216).
MainCatch(message) ==
    /\ thrown' = message
    /\ Exit(1)

\* ------------------------------------------------------- main, part_004 24-51
\* Usage and id validation, then parseMode.
Main_Start ==
    /\ pc = "start"
    /\ IF Len(argv) = 0 \/ argv[1] = "--help" \/ argv[1] = "-h"
       THEN Exit(0) /\ UNCHANGED mode
       ELSE /\ mode' = parseMode(argv)
            /\ IF ~IsValidObligationId(obligationId)
               THEN Exit(1)
               ELSE pc' = "init" /\ UNCHANGED exitCode
    /\ UNCHANGED <<argv, thrown, queryVars, chainVars, planVars, builderVars>>

\* loadConfig / createScallopSDK: either may throw.
Main_InitSDK ==
    /\ pc = "init"
    /\ \/ pc' = "query" /\ UNCHANGED <<exitCode, thrown>>
       \/ MainCatch("init failed")
    /\ UNCHANGED <<cliVars, queryVars, chainVars, planVars, builderVars>>

\* ----------------------------------------- queryObligation, liquidator 105-119
\* createScallopQuery or getObligationAccount rejects.
QO_SdkThrows ==
    /\ pc = "query"
    /\ sdkQueries' = sdkQueries + 1
    /\ MainCatch("sdk query failed")
    /\ UNCHANGED <<cliVars, obligationAccount, chainCalls, obligationInfo, source,
                   chainVars, planVars, builderVars>>

\* Mutant: the account is fetched and the chain is parsed all the same.
QO_SdkAccount_ChainAnyway ==
    /\ pc = "query"
    /\ \E account \in SdkAccounts(obligationId) :
          obligationAccount' = Some(account)
    /\ sdkQueries' = sdkQueries + 1
    /\ chainCalls' = Append(chainCalls, obligationId)
    /\ pc' = "chain_client"
    /\ UNCHANGED <<cliVars, exitCode, thrown, obligationInfo, source, chainVars,
                   planVars, builderVars>>

\* getObligationAccount resolves to an account: parseObligationFromSDK.
QO_SdkAccount ==
    /\ pc = "query"
    /\ \E account \in SdkAccounts(obligationId) :
          /\ obligationAccount' = Some(account)
          /\ obligationInfo' = Some(parseObligationFromSDK(account))
    /\ sdkQueries' = sdkQueries + 1
    /\ source' = "sdk"
    /\ pc' = "classify"
    /\ UNCHANGED <<cliVars, exitCode, thrown, chainCalls, chainVars, planVars,
                   builderVars>>

\* Mutant: a null account is an error, the chain is never asked.
QO_SdkNull_Throws ==
    /\ pc = "query"
    /\ obligationAccount' = None
    /\ sdkQueries' = sdkQueries + 1
    /\ MainCatch("Obligation not found")
    /\ UNCHANGED <<cliVars, chainCalls, obligationInfo, source, chainVars,
                   planVars, builderVars>>

\* The id queryObligation hands to queryObligationFromChain (liquidator 118).
FallbackId(id) == id

\* getObligationAccount resolves to null: fall back to the chain.
QO_SdkNull ==
    /\ pc = "query"
    /\ obligationAccount' = None
    /\ sdkQueries' = sdkQueries + 1
    /\ chainCalls' = Append(chainCalls, FallbackId(obligationId))
    /\ pc' = "chain_client"
    /\ UNCHANGED <<cliVars, exitCode, thrown, obligationInfo, source, chainVars,
                   planVars, builderVars>>


\* -------------------------------- queryObligationFromChain, liquidator 187-317
\* The obligationId parameter of the running queryObligationFromChain.
ChainObligationId == chainCalls[Len(chainCalls)]

Request(op, target) == [op |-> op, target |-> target]

\* getSuiClient (188-193).
QC_GetSuiClient ==
    /\ pc = "chain_client"
    /\ \/ pc' = "chain_object" /\ UNCHANGED <<exitCode, thrown>>
       \/ MainCatch("Failed to get Sui client")
    /\ UNCHANGED <<cliVars, queryVars, chainVars, planVars, builderVars>>

\* Mutant: an object that is not a move object is read as an empty one.
IsNotFound_NoContentOnly(obj) == obj.shape = "nocontent"

\* `!objResponse.data?.content || content.dataType !== 'moveObject'` (205).
IsNotFound(obj) == obj.shape # "moveObject"

\* getObject of the obligation and the content check (195-222).
QC_GetObject ==
    /\ pc = "chain_object"
    /\ rpcLog' = Append(rpcLog, Request("getObject", "obligation"))
    /\ \/ MainCatch("Failed to query obligation from chain")
          /\ objResponse' = "rejected"
          /\ UNCHANGED <<debtKeys, collateralKeys>>
       \/ \E obj \in ObligationObjects :
            /\ objResponse' = obj.shape
            /\ IF IsNotFound(obj)
               THEN MainCatch("Obligation not found")
                    /\ UNCHANGED <<debtKeys, collateralKeys>>
               ELSE /\ debtKeys' = obj.debtKeys
                    /\ collateralKeys' = obj.collateralKeys
                    /\ pc' = "chain_debts"
                    /\ UNCHANGED <<exitCode, thrown>>
    /\ UNCHANGED <<cliVars, queryVars, planVars, builderVars, fieldsLeft,
                   debtsEnumerated, collateralsEnumerated, debts, collaterals>>

\* Mutant: the table is read whatever it declares.
ReadsDebtTable_Always(keys) == keys >= 0

\* `if (debtKeys.length > 0)` (224).
ReadsDebtTable(keys) == keys > 0

\* The debts table: getDynamicFields unless it declares no key (224-226).
QC_DebtsTable ==
    /\ pc = "chain_debts"
    /\ IF ReadsDebtTable(debtKeys)
       THEN /\ rpcLog' = Append(rpcLog, Request("getDynamicFields", "debts"))
            /\ \/ MainCatch("getDynamicFields failed")
                  /\ UNCHANGED <<fieldsLeft, debtsEnumerated>>
               \/ \E n \in 0..MaxEntries :
                     /\ fieldsLeft' = n
                     /\ debtsEnumerated' = n
                     /\ pc' = "chain_debt_child"
                     /\ UNCHANGED <<exitCode, thrown>>
       ELSE /\ pc' = "chain_collaterals"
            /\ UNCHANGED <<rpcLog, fieldsLeft, debtsEnumerated, exitCode, thrown>>
    /\ UNCHANGED <<cliVars, queryVars, planVars, builderVars, objResponse, debtKeys,
                   collateralKeys, collateralsEnumerated, debts, collaterals>>

\* Mutant: the children are fetched together and their entries land as the
\* responses arrive, the latest first.
QC_DebtChild_Unordered ==
    /\ pc = "chain_debt_child"
    /\ fieldsLeft > 0
    /\ rpcLog' = Append(rpcLog, Request("getObject", "debts"))
    /\ \/ MainCatch("getObject failed") /\ UNCHANGED <<fieldsLeft, debts>>
       \/ \E obj \in DebtChildren :
            IF ChildHasFields(obj)
            THEN IF obj.shape = "malformed"
                 THEN MainCatch("TypeError") /\ UNCHANGED <<fieldsLeft, debts>>
                 ELSE /\ debts' = <<ChainDebtInfo(obj.content)>> \o debts
                      /\ fieldsLeft' = fieldsLeft - 1
                      /\ UNCHANGED <<pc, exitCode, thrown>>
            ELSE /\ fieldsLeft' = fieldsLeft - 1
                 /\ UNCHANGED <<debts, pc, exitCode, thrown>>
    /\ UNCHANGED <<cliVars, queryVars, planVars, builderVars, objResponse, debtKeys,
                   collateralKeys, debtsEnumerated, collateralsEnumerated,
                   collaterals>>

\* One turn of the loop over debtFields.data (228-255).
QC_DebtChild ==
    /\ pc = "chain_debt_child"
    /\ fieldsLeft > 0
    /\ rpcLog' = Append(rpcLog, Request("getObject", "debts"))
    /\ \/ MainCatch("getObject failed") /\ UNCHANGED <<fieldsLeft, debts>>
       \/ \E obj \in DebtChildren :
            IF ChildHasFields(obj)
            THEN IF obj.shape = "malformed"
                 THEN MainCatch("TypeError") /\ UNCHANGED <<fieldsLeft, debts>>
                 ELSE /\ debts' = Append(debts, ChainDebtInfo(obj.content))
                      /\ fieldsLeft' = fieldsLeft - 1
                      /\ UNCHANGED <<pc, exitCode, thrown>>
            ELSE /\ fieldsLeft' = fieldsLeft - 1
                 /\ UNCHANGED <<debts, pc, exitCode, thrown>>
    /\ UNCHANGED <<cliVars, queryVars, planVars, builderVars, objResponse, debtKeys,
                   collateralKeys, debtsEnumerated, collateralsEnumerated,
                   collaterals>>

\* The loop over debtFields.data ends.
QC_DebtsDone ==
    /\ pc = "chain_debt_child"
    /\ fieldsLeft = 0
    /\ pc' = "chain_collaterals"
    /\ UNCHANGED <<cliVars, exitCode, thrown, queryVars, chainVars, planVars,
                   builderVars>>

\* `if (collateralKeys.length > 0)` (270).
ReadsCollateralTable(keys) == keys > 0

\* The collaterals table (266-271).
QC_CollateralsTable ==
    /\ pc = "chain_collaterals"
    /\ IF ReadsCollateralTable(collateralKeys)
       THEN /\ rpcLog' = Append(rpcLog, Request("getDynamicFields", "collaterals"))
            /\ \/ MainCatch("getDynamicFields failed")
                  /\ UNCHANGED <<fieldsLeft, collateralsEnumerated>>
               \/ \E n \in 0..MaxEntries :
                     /\ fieldsLeft' = n
                     /\ collateralsEnumerated' = n
                     /\ pc' = "chain_collateral_child"
                     /\ UNCHANGED <<exitCode, thrown>>
       ELSE /\ pc' = "chain_return"
            /\ UNCHANGED <<rpcLog, fieldsLeft, collateralsEnumerated, exitCode,
                           thrown>>
    /\ UNCHANGED <<cliVars, queryVars, planVars, builderVars, objResponse, debtKeys,
                   collateralKeys, debtsEnumerated, debts, collaterals>>

\* One turn of the loop over collateralFields.data (273-300).
QC_CollateralChild ==
    /\ pc = "chain_collateral_child"
    /\ fieldsLeft > 0
    /\ rpcLog' = Append(rpcLog, Request("getObject", "collaterals"))
    /\ \/ MainCatch("getObject failed") /\ UNCHANGED <<fieldsLeft, collaterals>>
       \/ \E obj \in CollateralChildren :
            IF ChildHasFields(obj)
            THEN IF obj.shape = "malformed"
                 THEN MainCatch("TypeError")
                      /\ UNCHANGED <<fieldsLeft, collaterals>>
                 ELSE /\ collaterals' =
                            Append(collaterals, ChainCollateralInfo(obj.content))
                      /\ fieldsLeft' = fieldsLeft - 1
                      /\ UNCHANGED <<pc, exitCode, thrown>>
            ELSE /\ fieldsLeft' = fieldsLeft - 1
                 /\ UNCHANGED <<collaterals, pc, exitCode, thrown>>
    /\ UNCHANGED <<cliVars, queryVars, planVars, builderVars, objResponse, debtKeys,
                   collateralKeys, debtsEnumerated, collateralsEnumerated, debts>>

\* The loop over collateralFields.data ends.
QC_CollateralsDone ==
    /\ pc = "chain_collateral_child"
    /\ fieldsLeft = 0
    /\ pc' = "chain_return"
    /\ UNCHANGED <<cliVars, exitCode, thrown, queryVars, chainVars, planVars,
                   builderVars>>

\* The classification and the return (303-316), through queryObligation (118).
QC_Return ==
    /\ pc = "chain_return"
    /\ obligationInfo' =
          Some(ChainObligationInfo(ChainObligationId, debts, collaterals))
    /\ source' = "chain"
    /\ pc' = "classify"
    /\ UNCHANGED <<cliVars, exitCode, thrown, obligationAccount, sdkQueries,
                   chainCalls, chainVars, planVars, builderVars>>


\* ------------------------------------------------------ main, part_004 91-212
\* Mutant: only check mode stops at a bad-debt record.
BadDebtStops_CheckOnly(m) == m = "check"

\* `mode !== 'force'` at part_004 99: a bad-debt record stops here.
BadDebtStops(m) == m # "force"

\* Mutant: only check mode stops at a record that is not liquidatable.
NotLiquidatableStops_CheckOnly(m) == m = "check"

\* `mode !== 'force'` at part_004 109: a record that is not liquidatable stops.
NotLiquidatableStops(m) == m # "force"

\* `isBadDebt && mode === 'force'` at part_004 117.
RepaysBadDebt(isBadDebt, m) == isBadDebt /\ m = "force"

\* The else-if at part_004 155.
HasBothSides(info) == Len(info.debts) > 0 /\ Len(info.collaterals) > 0

\* Mutant: check mode falls through to the execution branch.
ReportsOnly_Never(m) == FALSE

\* `mode === 'check'` at part_004 171.
ReportsOnly(m) == m = "check"

\* Mutant: the profit gate is gone, execute mode goes on like force mode.
SkipsUnprofitable_Never(m, profitable) == FALSE

\* `mode === 'execute' && !profitEstimate.profitable` at part_004 177.
SkipsUnprofitable(m, profitable) == m = "execute" /\ ~profitable

\* obligationInfo.debts[0] and obligationInfo.collaterals[0].
PrimaryDebt(info) == info.debts[1]
PrimaryCollateral(info) == info.collaterals[1]

\* The early exits (91-114).
Main_Classify ==
    /\ pc = "classify"
    /\ LET info == Get(obligationInfo)
           isBadDebt == IsBadDebt(info)
       IN IF isBadDebt /\ BadDebtStops(mode)
          THEN Exit(0)
          ELSE IF ~info.isLiquidatable /\ ~isBadDebt /\ NotLiquidatableStops(mode)
          THEN Exit(0)
          ELSE pc' = "dispatch" /\ UNCHANGED exitCode
    /\ UNCHANGED <<cliVars, thrown, queryVars, chainVars, planVars, builderVars>>

\* The bad-debt branch up to the repayBadDebt call (117-142).
Main_BadDebt ==
    /\ pc = "dispatch"
    /\ LET info == Get(obligationInfo)
       IN /\ RepaysBadDebt(IsBadDebt(info), mode)
          /\ repayCalls' =
                Append(repayCalls,
                       [obligationId |-> obligationId,
                        debtCoinName |-> PrimaryDebt(info).coinName,
                        repayAmount |-> BadDebtRepayAmount(PrimaryDebt(info).amount)])
    /\ pc' = "repayBadDebt"
    /\ txSteps' = <<>>
    /\ UNCHANGED <<cliVars, exitCode, thrown, queryVars, chainVars, estimateCalls,
                   liquidateCalls, leftCoin, raised, result>>

\* The liquidation branch up to the liquidate call (155-197).
Main_Liquidation ==
    /\ pc = "dispatch"
    /\ LET info == Get(obligationInfo)
           primaryDebt == PrimaryDebt(info)
           primaryCollateral == PrimaryCollateral(info)
           profitEstimate ==
               estimateLiquidationProfit(info, primaryDebt.coinName,
                                         primaryCollateral.coinName)
       IN /\ ~RepaysBadDebt(IsBadDebt(info), mode)
          /\ HasBothSides(info)
          /\ estimateCalls' =
                Append(estimateCalls,
                       [debtCoinName |-> primaryDebt.coinName,
                        collateralCoinName |-> primaryCollateral.coinName,
                        profitable |-> profitEstimate.profitable,
                        estimatedProfitUsd |-> profitEstimate.estimatedProfitUsd])
          /\ IF ReportsOnly(mode)
             THEN /\ pc' = "done"
                  /\ exitCode' = 0
                  /\ UNCHANGED <<liquidateCalls, txSteps>>
             ELSE IF SkipsUnprofitable(mode, profitEstimate.profitable)
             THEN Exit(0) /\ UNCHANGED <<liquidateCalls, txSteps>>
             ELSE /\ liquidateCalls' =
                        Append(liquidateCalls,
                               [obligationId |-> obligationId,
                                debtCoinName |-> primaryDebt.coinName,
                                collateralCoinName |-> primaryCollateral.coinName,
                                repayAmount |->
                                    LiquidationRepayAmount(primaryDebt.amount)])
                  /\ pc' = "liquidate"
                  /\ txSteps' = <<>>
                  /\ UNCHANGED exitCode
    /\ UNCHANGED <<cliVars, thrown, queryVars, chainVars, repayCalls, leftCoin,
                   raised, result>>

\* 'No debts or collaterals found' (209-212).
Main_NoEntries ==
    /\ pc = "dispatch"
    /\ LET info == Get(obligationInfo)
       IN /\ ~RepaysBadDebt(IsBadDebt(info), mode)
          /\ ~HasBothSides(info)
    /\ Exit(1)
    /\ UNCHANGED <<cliVars, thrown, queryVars, chainVars, planVars, builderVars>>


\* ---------------------------------------- the builder calls, liquidator 376-542
\* An error message of the SDK, modelled by the set of the patterns the catch
\* blocks look for that the message contains, and of whatever else it says
\* ({}: the empty message; "timeout": a text none of the patterns is in).
ErrorMessages ==
    {{}, {"770"}, {"1537"}, {"No valid coins"}, {"Insufficient"},
     {"Cannot convert undefined"}, {"Cannot convert null"},
     {"770", "Insufficient"}, {"770", "1537"}, {"timeout"}}

\* errorMsg.includes(pattern).
MsgIncludes(errorMsg, pattern) == pattern \in errorMsg

\* The fallback `|| 9` of the insufficient-balance message (441, 513).
MESSAGE_DEFAULT_DECIMALS == 9

\* A failure result.  `from` tells the two wordings of one category apart
\* ("cannot be liquidated" / "cannot be repaid").
Failure(category, from, coins, required, raw) ==
    [success |-> FALSE, txDigest |-> None, repaidAmount |-> None,
     error |-> Some([category |-> category, from |-> from, coins |-> coins,
                     required |-> required, raw |-> raw])]

\* The success result (415-419, 503-507).
Success(repayAmount) ==
    [success |-> TRUE, txDigest |-> Some("digest"),
     repaidAmount |-> Some(repayAmount), error |-> None]

\* Number(repayAmount) / Math.pow(10, COIN_DECIMALS[name.toLowerCase()] || 9).
RequiredAmount(debtCoinName, repayAmount) ==
    Some(HumanAmount(repayAmount,
                     DecimalsOr(ToLowerCase(debtCoinName), ToLowerCase(debtCoinName),
                                MESSAGE_DEFAULT_DECIMALS)))

\* The catch block of liquidate (420-461).
LiquidateCatch(errorMsg, debtCoinName, collateralCoinName, repayAmount) ==
    IF MsgIncludes(errorMsg, "770")
    THEN Failure("locked", "liquidate", <<>>, None, {})
    ELSE IF MsgIncludes(errorMsg, "1537")
    THEN Failure("zero-amount", "liquidate", <<>>, None, {})
    ELSE IF MsgIncludes(errorMsg, "No valid coins") \/ MsgIncludes(errorMsg, "Insufficient")
    THEN Failure("insufficient", "liquidate", <<ToUpperCase(debtCoinName)>>,
                 RequiredAmount(debtCoinName, repayAmount), {})
    ELSE IF MsgIncludes(errorMsg, "Cannot convert undefined")
            \/ MsgIncludes(errorMsg, "Cannot convert null")
    THEN Failure("unsupported", "liquidate", <<debtCoinName, collateralCoinName>>,
                 None, {})
    ELSE Failure("raw", "liquidate", <<>>, None, errorMsg)

\* Mutant: repayBadDebt answers an unmatched error with a message of its own.
RepayCatch_NoPassThrough(errorMsg, debtCoinName, repayAmount) ==
    IF MsgIncludes(errorMsg, "No valid coins") \/ MsgIncludes(errorMsg, "Insufficient")
    THEN Failure("insufficient", "repayBadDebt", <<ToUpperCase(debtCoinName)>>,
                 RequiredAmount(debtCoinName, repayAmount), {})
    ELSE IF MsgIncludes(errorMsg, "770")
    THEN Failure("locked", "repayBadDebt", <<>>, None, {})
    ELSE IF MsgIncludes(errorMsg, "Cannot convert undefined")
            \/ MsgIncludes(errorMsg, "Cannot convert null")
    THEN Failure("unsupported", "repayBadDebt", <<debtCoinName>>, None, {})
    ELSE Failure("raw", "repayBadDebt", <<>>, None, {})

\* The catch block of repayBadDebt (508-541).
RepayCatch(errorMsg, debtCoinName, repayAmount) ==
    IF MsgIncludes(errorMsg, "No valid coins") \/ MsgIncludes(errorMsg, "Insufficient")
    THEN Failure("insufficient", "repayBadDebt", <<ToUpperCase(debtCoinName)>>,
                 RequiredAmount(debtCoinName, repayAmount), {})
    ELSE IF MsgIncludes(errorMsg, "770")
    THEN Failure("locked", "repayBadDebt", <<>>, None, {})
    ELSE IF MsgIncludes(errorMsg, "Cannot convert undefined")
            \/ MsgIncludes(errorMsg, "Cannot convert null")
    THEN Failure("unsupported", "repayBadDebt", <<debtCoinName>>, None, {})
    ELSE Failure("raw", "repayBadDebt", <<>>, None, errorMsg)

Step(op, coins) == [op |-> op, coins |-> coins]

\* Mutant: liquidate without the oracle price update.
LiquidateSteps_NoPriceUpdate(call) ==
    <<Step("createScallopBuilder", <<>>),
      Step("createTxBlock", <<>>),
      Step("selectCoin", <<call.debtCoinName>>),
      Step("liquidate", <<call.debtCoinName, call.collateralCoinName>>),
      Step("transferObjects", <<>>),
      Step("signAndSendTxBlock", <<>>)>>

\* The builder steps of liquidate, in program order (383-413).
LiquidateSteps(call) ==
    <<Step("createScallopBuilder", <<>>),
      Step("createTxBlock", <<>>),
      Step("updateAssetPricesQuick", <<call.debtCoinName, call.collateralCoinName>>),
      Step("selectCoin", <<call.debtCoinName>>),
      Step("liquidate", <<call.debtCoinName, call.collateralCoinName>>),
      Step("transferObjects", <<>>),
      Step("signAndSendTxBlock", <<>>)>>

\* The builder steps of repayBadDebt, in program order (474-501); the transfer
\* is made only `if (leftCoin)`.
RepaySteps(call, left) ==
    <<Step("createScallopBuilder", <<>>),
      Step("createTxBlock", <<>>),
      Step("setSender", <<>>),
      Step("updateAssetPricesQuick", <<call.debtCoinName>>),
      Step("selectCoin", <<call.debtCoinName>>),
      Step("repay", <<call.debtCoinName>>)>>
    \o (IF left THEN <<Step("transferObjects", <<>>)>> ELSE <<>>)
    \o <<Step("signAndSendTxBlock", <<>>)>>

\* What the catch block receives: the step that threw and error.message.
Raised(step, errorMsg) == [op |-> step.op, message |-> errorMsg]

\* The running call's arguments.
LiquidateCall == liquidateCalls[Len(liquidateCalls)]
RepayCall == repayCalls[Len(repayCalls)]

\* The next builder step of liquidate completes.
Liquidate_Step ==
    /\ pc = "liquidate"
    /\ Len(txSteps) < Len(LiquidateSteps(LiquidateCall))
    /\ txSteps' = Append(txSteps, LiquidateSteps(LiquidateCall)[Len(txSteps) + 1])
    /\ UNCHANGED <<cliVars, pc, exitCode, thrown, queryVars, chainVars, planVars,
                   leftCoin, raised, result>>

\* Mutant: liquidate has no try/catch, the error reaches main's catch.
Liquidate_Throw_Escapes ==
    /\ pc = "liquidate"
    /\ Len(txSteps) < Len(LiquidateSteps(LiquidateCall))
    /\ MainCatch("builder step failed")
    /\ UNCHANGED <<cliVars, queryVars, chainVars, planVars, builderVars>>

\* The next builder step of liquidate throws: the catch block.
Liquidate_Throw ==
    /\ pc = "liquidate"
    /\ Len(txSteps) < Len(LiquidateSteps(LiquidateCall))
    /\ \E errorMsg \in ErrorMessages :
          /\ raised' = Some(Raised(LiquidateSteps(LiquidateCall)[Len(txSteps) + 1],
                                   errorMsg))
          /\ result' = Some(LiquidateCatch(errorMsg, LiquidateCall.debtCoinName,
                                           LiquidateCall.collateralCoinName,
                                           LiquidateCall.repayAmount))
    /\ pc' = "liquidate_result"
    /\ UNCHANGED <<cliVars, exitCode, thrown, queryVars, chainVars, planVars,
                   txSteps, leftCoin>>

\* liquidate returns the success result (415-419).
Liquidate_Return ==
    /\ pc = "liquidate"
    /\ Len(txSteps) = Len(LiquidateSteps(LiquidateCall))
    /\ result' = Some(Success(LiquidateCall.repayAmount))
    /\ pc' = "liquidate_result"
    /\ UNCHANGED <<cliVars, exitCode, thrown, queryVars, chainVars, planVars,
                   txSteps, leftCoin, raised>>

\* The next builder step of repayBadDebt completes; selectCoin decides leftCoin.
RepayBadDebt_Step ==
    /\ pc = "repayBadDebt"
    /\ Len(txSteps) < Len(RepaySteps(RepayCall, leftCoin))
    /\ LET next == RepaySteps(RepayCall, leftCoin)[Len(txSteps) + 1]
       IN /\ txSteps' = Append(txSteps, next)
          /\ IF next.op = "selectCoin"
             THEN leftCoin' \in BOOLEAN
             ELSE UNCHANGED leftCoin
    /\ UNCHANGED <<cliVars, pc, exitCode, thrown, queryVars, chainVars, planVars,
                   raised, result>>

\* The next builder step of repayBadDebt throws: the catch block.
RepayBadDebt_Throw ==
    /\ pc = "repayBadDebt"
    /\ Len(txSteps) < Len(RepaySteps(RepayCall, leftCoin))
    /\ \E errorMsg \in ErrorMessages :
          /\ raised' = Some(Raised(RepaySteps(RepayCall, leftCoin)[Len(txSteps) + 1],
                                   errorMsg))
          /\ result' = Some(RepayCatch(errorMsg, RepayCall.debtCoinName,
                                       RepayCall.repayAmount))
    /\ pc' = "repay_result"
    /\ UNCHANGED <<cliVars, exitCode, thrown, queryVars, chainVars, planVars,
                   txSteps, leftCoin>>

\* repayBadDebt returns the success result (503-507).
RepayBadDebt_Return ==
    /\ pc = "repayBadDebt"
    /\ Len(txSteps) = Len(RepaySteps(RepayCall, leftCoin))
    /\ result' = Some(Success(RepayCall.repayAmount))
    /\ pc' = "repay_result"
    /\ UNCHANGED <<cliVars, exitCode, thrown, queryVars, chainVars, planVars,
                   txSteps, leftCoin, raised>>

\* Mutant: a failed liquidation is tried once more before main gives up.
Main_Result_Retries ==
    /\ pc \in {"liquidate_result", "repay_result"}
    /\ IF Get(result).success
       THEN /\ pc' = "done" /\ exitCode' = 0
            /\ UNCHANGED <<planVars, builderVars>>
       ELSE IF pc = "liquidate_result" /\ Len(liquidateCalls) < 2
       THEN /\ liquidateCalls' = Append(liquidateCalls, LiquidateCall)
            /\ pc' = "liquidate"
            /\ txSteps' = <<>>
            /\ raised' = None
            /\ result' = None
            /\ UNCHANGED <<exitCode, estimateCalls, repayCalls, leftCoin>>
       ELSE Exit(1) /\ UNCHANGED <<planVars, builderVars>>
    /\ UNCHANGED <<cliVars, thrown, queryVars, chainVars>>

\* main reports the result (144-152, 199-207).
Main_Result ==
    /\ pc \in {"liquidate_result", "repay_result"}
    /\ IF Get(result).success
       THEN pc' = "done" /\ exitCode' = 0
       ELSE Exit(1)
    /\ UNCHANGED <<cliVars, thrown, queryVars, chainVars, planVars, builderVars>>

\* ----------------------------------------------------------- specification
Next ==
    \/ Main_Start
    \/ Main_InitSDK
    \/ QO_SdkThrows
    \/ QO_SdkAccount
    \/ QO_SdkNull
    \/ QC_GetSuiClient
    \/ QC_GetObject
    \/ QC_DebtsTable
    \/ QC_DebtChild
    \/ QC_DebtsDone
    \/ QC_CollateralsTable
    \/ QC_CollateralChild
    \/ QC_CollateralsDone
    \/ QC_Return
    \/ Main_Classify
    \/ Main_BadDebt
    \/ Main_Liquidation
    \/ Main_NoEntries
    \/ Liquidate_Step
    \/ Liquidate_Throw
    \/ Liquidate_Return
    \/ RepayBadDebt_Step
    \/ RepayBadDebt_Throw
    \/ RepayBadDebt_Return
    \/ Main_Result

Spec == Init /\ [][Next]_vars


\* ------------------------------------- estimateLiquidationProfit on its own
\* The method is public: a caller hands it any record and any two names.
\* Debt entries of the records: 4.00 USD makes 0.5 * 4.00 * 0.05 the floor 0.10
\* itself, 4.02 USD is just above it.
EstimateDebts ==
    {SdkDebtInfo([coinType |-> Hex0x(USDC_TYPE), coinName |-> e.coinName,
                  borrowedAmount |-> 1, borrowedCoin |-> HumanAmount(1, 6),
                  borrowedValue |-> e.valueUsd]) :
        e \in {[coinName |-> "usdc", valueUsd |-> 12000],
               [coinName |-> "USDC", valueUsd |-> 400],
               [coinName |-> "sui", valueUsd |-> 402]}}

\* Collateral entries of the records: 2.00 USD caps 0.5 * 120 USD at the floor.
EstimateCollaterals ==
    {SdkCollateralInfo([coinType |-> Hex0x(SUI_TYPE), coinName |-> e.coinName,
                        depositedAmount |-> 1, depositedCoin |-> HumanAmount(1, 9),
                        depositedValue |-> e.valueUsd]) :
        e \in {[coinName |-> "sui", valueUsd |-> 15075],
               [coinName |-> "Sui", valueUsd |-> 150],
               [coinName |-> "wusdc", valueUsd |-> 200]}}

\* The names a caller asks for; "eth" is in none of the records.
EstimateNames == {"usdc", "USDC", "sui", "SUI", "wusdc", "eth"}

\* The records: any lists of the entries above.
EstimateInfos ==
    {[obligationId |-> OBLIGATION_A, debts |-> d, collaterals |-> c,
      riskLevel |-> 105, totalBorrowedValueWithWeight |-> 12600,
      totalRequiredCollateralValue |-> 12000, isLiquidatable |-> TRUE] :
        d \in SeqUpTo(EstimateDebts, MaxEntries),
        c \in SeqUpTo(EstimateCollaterals, MaxEntries)}

\* A caller holding a record, about to call estimateLiquidationProfit.
InitEstimate ==
    /\ argv = <<OBLIGATION_A>>
    /\ mode = "unset"
    /\ pc = "estimate"
    /\ exitCode = -1
    /\ thrown = ""
    /\ obligationAccount = None
    /\ sdkQueries = 0
    /\ chainCalls = <<>>
    /\ rpcLog = <<>>
    /\ objResponse = "none"
    /\ debtKeys = 0
    /\ collateralKeys = 0
    /\ fieldsLeft = 0
    /\ debtsEnumerated = 0
    /\ collateralsEnumerated = 0
    /\ debts = <<>>
    /\ collaterals = <<>>
    /\ obligationInfo \in {Some(info) : info \in EstimateInfos}
    /\ source = "none"
    /\ estimateCalls = <<>>
    /\ liquidateCalls = <<>>
    /\ repayCalls = <<>>
    /\ txSteps = <<>>
    /\ leftCoin = FALSE
    /\ raised = None
    /\ result = None

\* estimateLiquidationProfit(obligationInfo, debtCoinName, collateralCoinName),
\* the bonus left to its default (liquidator.ts 547-574).
Estimate_Call ==
    /\ pc = "estimate"
    /\ \E debtCoinName \in EstimateNames, collateralCoinName \in EstimateNames :
          LET profitEstimate ==
                  estimateLiquidationProfit(Get(obligationInfo), debtCoinName,
                                            collateralCoinName)
          IN estimateCalls' =
                Append(estimateCalls,
                       [debtCoinName |-> debtCoinName,
                        collateralCoinName |-> collateralCoinName,
                        profitable |-> profitEstimate.profitable,
                        estimatedProfitUsd |-> profitEstimate.estimatedProfitUsd])
    /\ pc' = "estimated"
    /\ UNCHANGED <<cliVars, exitCode, thrown, queryVars, chainVars, liquidateCalls,
                   repayCalls, builderVars>>

NextEstimate == Estimate_Call

SpecEstimate == InitEstimate /\ [][NextEstimate]_vars


\* ---------------------------------------------------- extractCoinInfo on its own
\* The type names a child field can carry: the string comes from the RPC
\* response as it is (liquidator.ts 240), known to the table or not.
RegistryTypes ==
    {USDC_TYPE, WUSDC_TYPE, SUI_TYPE, FOO_TYPE, BAZ_TYPE, NOSEP_TYPE, EMPTY_TYPE,
     NOSTRUCT_TYPE, NOMODULE_TYPE, GENERIC_TYPE, VAULT_TYPE}

\* The child loops of queryObligationFromChain with up to MaxEntries children
\* left in all, each with content and fields: debt children first, collateral
\* children after them.
InitRegistry ==
    /\ argv = <<OBLIGATION_A>>
    /\ mode = "check"
    /\ pc = "chain_debt_child"
    /\ exitCode = -1
    /\ thrown = ""
    /\ obligationAccount = None
    /\ sdkQueries = 1
    /\ chainCalls = <<OBLIGATION_A>>
    /\ rpcLog = <<>>
    /\ objResponse = "none"
    /\ debtKeys = MaxEntries
    /\ collateralKeys = 0
    /\ fieldsLeft = MaxEntries
    /\ debtsEnumerated = MaxEntries
    /\ collateralsEnumerated = 0
    /\ debts = <<>>
    /\ collaterals = <<>>
    /\ obligationInfo = None
    /\ source = "none"
    /\ estimateCalls = <<>>
    /\ liquidateCalls = <<>>
    /\ repayCalls = <<>>
    /\ txSteps = <<>>
    /\ leftCoin = FALSE
    /\ raised = None
    /\ result = None

\* One turn of the loop body (liquidator.ts 240-253): extractCoinInfo on the
\* child's type name, the entry pushed.
Registry_DebtChild ==
    /\ pc = "chain_debt_child"
    /\ fieldsLeft > 0
    /\ collaterals = <<>>
    /\ \E coinTypeFull \in RegistryTypes :
          debts' = Append(debts, ChainDebtInfo([name |-> coinTypeFull, amount |-> 1]))
    /\ fieldsLeft' = fieldsLeft - 1
    /\ UNCHANGED <<cliVars, pc, exitCode, thrown, queryVars, rpcLog, objResponse,
                   debtKeys,
                   collateralKeys, debtsEnumerated, collateralsEnumerated,
                   collaterals, planVars, builderVars>>

\* One turn of the collateral loop body (liquidator.ts 285-298).
Registry_CollateralChild ==
    /\ pc = "chain_debt_child"
    /\ fieldsLeft > 0
    /\ \E coinTypeFull \in RegistryTypes :
          collaterals' =
              Append(collaterals,
                     ChainCollateralInfo([name |-> coinTypeFull, amount |-> 1]))
    /\ fieldsLeft' = fieldsLeft - 1
    /\ UNCHANGED <<cliVars, pc, exitCode, thrown, queryVars, rpcLog, objResponse,
                   debtKeys,
                   collateralKeys, debtsEnumerated, collateralsEnumerated,
                   debts, planVars, builderVars>>

NextRegistry ==
    \/ Registry_DebtChild
    \/ Registry_CollateralChild

SpecRegistry == InitRegistry /\ [][NextRegistry]_vars


\* ------------------------------------------------------------------ claims
\* The record queryObligation returned, once it has.
Returned == IsSome(obligationInfo)
Info == Get(obligationInfo)

\* getObligationAccount resolved (to null) rather than rejected.
SdkReturnedNull ==
    sdkQueries > 0 /\ obligationAccount = None /\ thrown # "sdk query failed"

\* The errors queryObligationFromChain itself raises or lets through.
ChainParserErrors ==
    {"Failed to get Sui client", "Failed to query obligation from chain",
     "Obligation not found", "getDynamicFields failed", "getObject failed",
     "TypeError"}

RequestsFor(table) == {i \in 1..Len(rpcLog) : rpcLog[i].target = table}

\* C1: a record returned by queryObligation, on either path, is never both
\* liquidatable and bad debt (debts non-empty, collaterals empty).
C1_NeverLiquidatableAndBadDebt ==
    Returned => ~(Info.isLiquidatable /\ Len(Info.debts) > 0 /\ Len(Info.collaterals) = 0)

\* C2: a returned record with no debt entry is not liquidatable and not bad
\* debt, whatever its risk ratio.
C2_NoDebtNeverLiquidatable ==
    (Returned /\ Len(Info.debts) = 0) =>
        (~Info.isLiquidatable /\ ~(Len(Info.debts) > 0 /\ Len(Info.collaterals) = 0))

\* C3: when getObligationAccount returns null, queryObligationFromChain is
\* called exactly once, with the id queryObligation was given; the record
\* returned is that parser's record; the only errors are the parser's own.
C3_NullFallsBackOnce ==
    SdkReturnedNull =>
        /\ chainCalls = <<obligationId>>
        /\ thrown \in {""} \cup ChainParserErrors
        /\ Returned =>
              /\ source = "chain"
              /\ Info.obligationId = obligationId
              /\ Info.debts = debts
              /\ Info.collaterals = collaterals

C3_Witness ==
    /\ SdkReturnedNull
    /\ Returned
    /\ source = "chain"
    /\ Len(Info.debts) > 0
    /\ Len(chainCalls) = 1

\* C4: every liquidate call of the CLI repays floor(amount of the first debt
\* entry x 0.5), for the first debt entry's and the first collateral entry's
\* coin names.
C4_LiquidateRepaysHalfOfFirstDebt ==
    \A i \in 1..Len(liquidateCalls) :
        LET call == liquidateCalls[i]
        IN /\ Returned
           /\ Len(Info.debts) > 0
           /\ Len(Info.collaterals) > 0
           /\ 2 * call.repayAmount <= Info.debts[1].amount
           /\ Info.debts[1].amount < 2 * call.repayAmount + 2
           /\ call.debtCoinName = Info.debts[1].coinName
           /\ call.collateralCoinName = Info.collaterals[1].coinName

C4_Witness ==
    /\ Len(liquidateCalls) = 1
    /\ Len(Info.debts) = 2
    /\ Info.debts[1].amount = 120000001
    /\ liquidateCalls[1].repayAmount = 60000000
    /\ liquidateCalls[1].debtCoinName = "usdc"
    /\ liquidateCalls[1].collateralCoinName = "wusdc"

\* C5: every repayBadDebt call of the CLI repays the whole amount of the first
\* debt entry, and neither its arguments nor its builder steps name a
\* collateral coin.
C5_BadDebtRepaysAllOfFirstDebt ==
    \A i \in 1..Len(repayCalls) :
        LET call == repayCalls[i]
        IN /\ Returned
           /\ Len(Info.debts) > 0
           /\ call.repayAmount = Info.debts[1].amount
           /\ call.debtCoinName = Info.debts[1].coinName
           /\ DOMAIN call = {"obligationId", "debtCoinName", "repayAmount"}
           /\ \A k \in 1..Len(txSteps) :
                 txSteps[k].coins \in {<<>>, <<call.debtCoinName>>}

C5_Witness ==
    /\ Len(repayCalls) = 1
    /\ source = "chain"
    /\ repayCalls[1].repayAmount = 10591093
    /\ repayCalls[1].debtCoinName = "wusdc"
    /\ pc = "repay_result"
    /\ Get(result).success

\* C6: a record returned by queryObligationFromChain has one entry per child
\* field enumerated, in each table: no child is dropped without an error.
C6_NoChildSilentlyDropped ==
    (Returned /\ source = "chain") =>
        /\ Len(Info.debts) = debtsEnumerated
        /\ Len(Info.collaterals) = collateralsEnumerated

\* C7: a table that declares zero keys yields an empty list and costs no
\* getDynamicFields and no child getObject request.
C7_EmptyTableCostsNoRequest ==
    /\ debtKeys = 0 => (RequestsFor("debts") = {} /\ debts = <<>>)
    /\ collateralKeys = 0 => (RequestsFor("collaterals") = {} /\ collaterals = <<>>)
    /\ (Returned /\ source = "chain") =>
          /\ debtKeys = 0 => Info.debts = <<>>
          /\ collateralKeys = 0 => Info.collaterals = <<>>

C7_Witness ==
    /\ Returned
    /\ source = "chain"
    /\ debtKeys = 0
    /\ collateralKeys > 0
    /\ Len(Info.collaterals) > 0
    /\ RequestsFor("debts") = {}

\* C8: on the chain path the entry counts decide: debts and no collateral gives
\* risk 999 and not liquidatable; debts and collateral gives risk 1.0 and
\* liquidatable; no debt gives risk 0 and not liquidatable.
C8_ChainClassifiesByCounts ==
    (Returned /\ source = "chain") =>
        LET d == Len(Info.debts)
            c == Len(Info.collaterals)
        IN /\ (d > 0 /\ c = 0) => (Info.riskLevel = 99900 /\ ~Info.isLiquidatable)
           /\ (d > 0 /\ c > 0) => (Info.riskLevel = 100 /\ Info.isLiquidatable)
           /\ d = 0 => (Info.riskLevel = 0 /\ ~Info.isLiquidatable)

C8_Witness ==
    /\ Returned
    /\ source = "chain"
    /\ Len(Info.debts) > 0
    /\ Len(Info.collaterals) = 0
    /\ Info.riskLevel = 99900
    /\ pc = "classify"

\* C9: repayBadDebt is called only in force mode on a bad-debt record; in check
\* or execute mode a bad-debt record ends the invocation with no builder call;
\* a bad-debt record never reaches estimateLiquidationProfit.
C9_BadDebtOnlyUnderForce ==
    /\ repayCalls # <<>> =>
          (mode = "force" /\ Returned /\ Len(Info.debts) > 0 /\ Len(Info.collaterals) = 0)
    /\ (Returned /\ Len(Info.debts) > 0 /\ Len(Info.collaterals) = 0) =>
          /\ estimateCalls = <<>>
          /\ mode \in {"check", "execute"} =>
                /\ pc \in {"classify", "exited"}
                /\ pc = "exited" => exitCode = 0
                /\ repayCalls = <<>>
                /\ liquidateCalls = <<>>
                /\ txSteps = <<>>

C9_Witness ==
    /\ Len(repayCalls) = 1
    /\ mode = "force"
    /\ Len(Info.debts) > 0
    /\ Len(Info.collaterals) = 0
    /\ source = "sdk"

\* C10: in check mode neither liquidate nor repayBadDebt is called and no
\* builder step is taken, whatever the query returned.
C10_CheckModeNeverExecutes ==
    mode = "check" =>
        /\ liquidateCalls = <<>>
        /\ repayCalls = <<>>
        /\ txSteps = <<>>
        /\ result = None
        /\ pc \notin {"liquidate", "repayBadDebt", "liquidate_result", "repay_result"}

C10_Witness ==
    /\ mode = "check"
    /\ argv = <<OBLIGATION_A>>
    /\ pc = "done"
    /\ Info.isLiquidatable
    /\ Len(estimateCalls) = 1
    /\ estimateCalls[1].profitable


\* C11: in execute mode liquidate is called only after estimateLiquidationProfit
\* reported profitable = TRUE for the pair (first debt, first collateral), and
\* the call is for that pair; an execute run whose estimate is not profitable
\* ends (exit 0) without any builder call; an unprofitable estimate followed by
\* a liquidate call happens in force mode only.
C11_ExecuteNeedsProfit ==
    /\ (mode = "execute" /\ liquidateCalls # <<>>) =>
          /\ Len(estimateCalls) = 1
          /\ estimateCalls[1].profitable
          /\ estimateCalls[1].debtCoinName = Info.debts[1].coinName
          /\ estimateCalls[1].collateralCoinName = Info.collaterals[1].coinName
          /\ liquidateCalls[1].debtCoinName = estimateCalls[1].debtCoinName
          /\ liquidateCalls[1].collateralCoinName
                = estimateCalls[1].collateralCoinName
    /\ (mode = "execute" /\ estimateCalls # <<>> /\ ~estimateCalls[1].profitable) =>
          /\ liquidateCalls = <<>> /\ repayCalls = <<>>
          /\ txSteps = <<>> /\ result = None
          /\ pc = "exited" /\ exitCode = 0
    /\ (liquidateCalls # <<>> /\ ~estimateCalls[1].profitable) => mode = "force"

\* An execute run stopped by an unprofitable estimate.
C11_Witness ==
    /\ mode = "execute"
    /\ estimateCalls # <<>>
    /\ ~estimateCalls[1].profitable
    /\ pc = "exited"

\* The ordinary or bad-debt builder call main made, and whether it has returned.
BuilderCalled == liquidateCalls # <<>> \/ repayCalls # <<>>
BuilderReturned == BuilderCalled /\ pc \in {"liquidate_result", "repay_result", "done", "exited"}
RequestedRepayAmount ==
    IF liquidateCalls # <<>> THEN LiquidateCall.repayAmount ELSE RepayCall.repayAmount

\* C12: liquidate and repayBadDebt never raise: whichever builder step throws,
\* the call returns success = false with an error and nothing reaches main's
\* catch; a call none of whose steps threw returns success = true with a digest
\* and repaidAmount equal to the repay amount it was called with.
C12_BuilderCallsNeverRaise ==
    /\ BuilderCalled => thrown = ""
    /\ BuilderReturned => IsSome(result)
    /\ IsSome(raised) =>
          /\ IsSome(result)
          /\ ~Get(result).success
          /\ IsSome(Get(result).error)
          /\ Get(result).txDigest = None
    /\ (IsSome(result) /\ raised = None) =>
          /\ Get(result).success
          /\ IsSome(Get(result).txDigest)
          /\ Get(result).repaidAmount = Some(RequestedRepayAmount)
          /\ Get(result).error = None

\* The last step, sign-and-send, threw inside liquidate and main got a result.
C12_Witness ==
    /\ liquidateCalls # <<>>
    /\ IsSome(raised)
    /\ Get(raised).op = "signAndSendTxBlock"
    /\ IsSome(result)
    /\ ~Get(result).success
    /\ pc = "exited"

\* C13: whenever a builder step raises an error whose message contains the
\* locked indicator 770, the call (liquidate or repayBadDebt) returns
\* success = false with the locked message: not the raw message and not another
\* category's, whatever else the message contains.
C13_LockedAlwaysReportedAsLocked ==
    (IsSome(raised) /\ MsgIncludes(Get(raised).message, "770")) =>
        /\ IsSome(result)
        /\ ~Get(result).success
        /\ Get(Get(result).error).category = "locked"
        /\ Get(Get(result).error).raw = {}

\* The entries of `entries` whose name is `coinName` up to case, written out
\* on the names the estimate runs use.
SameNameUpToCase(a, b) ==
    \/ a = b
    \/ {a, b} = {"usdc", "USDC"}
    \/ {a, b} \subseteq {"sui", "SUI", "Sui"}
MatchesOf(entries, coinName) ==
    {i \in 1..Len(entries) : SameNameUpToCase(entries[i].coinName, coinName)}
FirstOf(S) == CHOOSE i \in S : \A j \in S : i <= j

\* C14: estimateLiquidationProfit returns min(0.5 * debt USD, collateral USD)
\* * 5% for the (first) debt and collateral entries whose names match the given
\* names up to case, and profitable exactly when that estimate is strictly
\* above 0.10 USD; when either name matches no entry it returns
\* profitable = FALSE and an estimate of 0.  (Cents: the estimate times 20000
\* is min(debt, 2 * collateral) * 5, and 0.10 USD is 2000.)
C14_EstimateIsCappedBonus ==
    pc = "estimated" =>
        LET call == estimateCalls[1]
            ds == MatchesOf(Info.debts, call.debtCoinName)
            cs == MatchesOf(Info.collaterals, call.collateralCoinName)
        IN IF ds = {} \/ cs = {}
           THEN ~call.profitable /\ call.estimatedProfitUsd = 0
           ELSE LET d == Info.debts[FirstOf(ds)].valueUsd
                    c == Info.collaterals[FirstOf(cs)].valueUsd
                    half == IF d <= 2 * c THEN d ELSE 2 * c
                IN /\ call.estimatedProfitUsd = half * 5
                   /\ call.profitable <=> (half * 5 > 2000)

\* An estimate of exactly 0.10 USD (debt 4.00 USD, ample collateral) for names
\* given in another case than the record's: not profitable.
C14_Witness ==
    /\ pc = "estimated"
    /\ Len(Info.debts) = 1
    /\ Len(Info.collaterals) = 1
    /\ Info.debts[1].coinName = "USDC"
    /\ Info.collaterals[1].coinName = "sui"
    /\ estimateCalls[1].debtCoinName = "usdc"
    /\ estimateCalls[1].collateralCoinName = "SUI"
    /\ estimateCalls[1].estimatedProfitUsd = 2000
    /\ ~estimateCalls[1].profitable

IsEmptyText(parts) == \A i \in 1..Len(parts) : parts[i] = ""

\* C16: for every identifier with no exact match in KNOWN_COIN_TYPES,
\* extractCoinInfo returns a non-empty sdkName and a non-empty display name;
\* the same identifier always yields the same result; an identifier with an
\* exact match returns its table entry unchanged.  (Read off the entries the
\* chain parser builds: coinName is sdkName, coinDisplayName is name.)
C16_RegistryNeverReturnsEmpty ==
    \A i \in 1..Len(debts) :
        LET entry == debts[i]
            coinTypeFull == entry.coinType.path
        IN /\ coinTypeFull \notin DOMAIN KNOWN_COIN_TYPES =>
                 /\ entry.coinName # ""
                 /\ ~IsEmptyText(entry.coinDisplayName)
           /\ coinTypeFull \in DOMAIN KNOWN_COIN_TYPES =>
                 /\ entry.coinName = KNOWN_COIN_TYPES[coinTypeFull].sdkName
                 /\ entry.coinSymbol = KNOWN_COIN_TYPES[coinTypeFull].symbol
                 /\ entry.coinDisplayName = <<KNOWN_COIN_TYPES[coinTypeFull].name>>
           /\ \A j \in 1..Len(debts) :
                 debts[j].coinType = entry.coinType =>
                     /\ debts[j].coinName = entry.coinName
                     /\ debts[j].coinSymbol = entry.coinSymbol
                     /\ debts[j].coinDisplayName = entry.coinDisplayName

\* C17: every coinName the raw-chain parser puts in a record is lowercase,
\* whichever way extractCoinInfo resolved the identifier, and that coinName,
\* unchanged, is what main passes to liquidate / repayBadDebt and what the
\* price-update, coin-selection and contract steps name.
C17_ChainNamesLowercasePassedOn ==
    (Returned /\ source = "chain") =>
        /\ \A i \in 1..Len(Info.debts) :
              ToLowerCase(Info.debts[i].coinName) = Info.debts[i].coinName
        /\ \A i \in 1..Len(Info.collaterals) :
              ToLowerCase(Info.collaterals[i].coinName) = Info.collaterals[i].coinName
        /\ liquidateCalls # <<>> =>
              /\ LiquidateCall.debtCoinName = Info.debts[1].coinName
              /\ LiquidateCall.collateralCoinName = Info.collaterals[1].coinName
        /\ repayCalls # <<>> => RepayCall.debtCoinName = Info.debts[1].coinName
        /\ \A i \in 1..Len(txSteps) :
              \A k \in 1..Len(txSteps[i].coins) :
                  txSteps[i].coins[k]
                      \in {Info.debts[1].coinName} \cup
                          (IF liquidateCalls # <<>>
                           THEN {Info.collaterals[1].coinName} ELSE {})

\* The sign-and-send attempts of the run: the completed ones and the one that
\* threw.
SendAttempts ==
    Cardinality({i \in 1..Len(txSteps) : txSteps[i].op = "signAndSendTxBlock"})
    + (IF IsSome(raised) /\ Get(raised).op = "signAndSendTxBlock" THEN 1 ELSE 0)

\* C18: nothing is retried.  In one invocation the structured source is asked
\* at most once (and the chain parser called at most once), main makes at most
\* one builder call (liquidate or repayBadDebt, never both, never twice),
\* sign-and-send is attempted at most once, and after a step threw, whatever
\* the error, no further step runs: main reports the result and exits 1.
C18_NothingRetried ==
    /\ sdkQueries <= 1
    /\ Len(chainCalls) <= 1
    /\ Len(liquidateCalls) + Len(repayCalls) <= 1
    /\ SendAttempts <= 1
    /\ IsSome(raised) =>
          /\ pc \in {"liquidate_result", "repay_result", "exited"}
          /\ pc = "exited" => exitCode = 1

\* A locked error at sign-and-send after which the run ended with code 1.
C18_Witness ==
    /\ Len(liquidateCalls) = 1
    /\ IsSome(raised)
    /\ Get(raised).op = "signAndSendTxBlock"
    /\ MsgIncludes(Get(raised).message, "770")
    /\ pc = "exited"
    /\ exitCode = 1

\* The builder steps the running call attempted, in order: the completed ones
\* and, last, the one that threw.
AttemptedOps ==
    [i \in 1..Len(txSteps) |-> txSteps[i].op]
    \o (IF IsSome(raised) THEN <<Get(raised).op>> ELSE <<>>)
CompletedOps == {txSteps[i].op : i \in 1..Len(txSteps)}

\* The place of a step in the order the claim states; 0 for the set-up steps
\* (builder and transaction block creation, setSender) it does not name.
StepRank(op) ==
    CASE op = "updateAssetPricesQuick" -> 1
      [] op = "selectCoin" -> 2
      [] op \in {"liquidate", "repay"} -> 3
      [] op = "transferObjects" -> 4
      [] op = "signAndSendTxBlock" -> 5
      [] OTHER -> 0

PresentSlots(slots) == {i \in 1..Len(slots) : IsSome(slots[i])}

\* C20: queryObligation calls the structured source first: no chain request
\* and no chain parse happens before getObligationAccount was called, and none
\* at all unless it resolved to null.  When it resolved to a present account
\* the raw chain is never touched (no getObject, no getDynamicFields) and the
\* record returned is the normalization of that account: its id and risk
\* ratio, and one entry per non-null value of its maps.
C20_SdkFirstAndChainUntouched ==
    /\ (rpcLog # <<>> \/ chainCalls # <<>> \/ Returned) => sdkQueries = 1
    /\ (rpcLog # <<>> \/ chainCalls # <<>>) => obligationAccount = None
    /\ IsSome(obligationAccount) =>
          LET account == Get(obligationAccount)
          IN /\ chainCalls = <<>>
             /\ rpcLog = <<>>
             /\ debts = <<>> /\ collaterals = <<>>
             /\ Returned
             /\ source = "sdk"
             /\ Info = parseObligationFromSDK(account)
             /\ Info.obligationId = account.obligationId
             /\ Info.riskLevel = account.totalRiskLevel
             /\ Len(Info.debts) = Cardinality(PresentSlots(account.debts))
             /\ Len(Info.collaterals) = Cardinality(PresentSlots(account.collaterals))

\* A present account with a null value in its debts map, the run over.
C20_Witness ==
    /\ IsSome(obligationAccount)
    /\ Len(Get(obligationAccount).debts) = 2
    /\ Get(obligationAccount).debts[1] = None
    /\ Len(Info.debts) = 1
    /\ source = "sdk"
    /\ pc \in {"done", "exited"}

\* The k-th smallest of a set of indices.
NthPresent(present, k) ==
    CHOOSE i \in present : Cardinality({j \in present : j <= i}) = k

\* C21: on the structured-source path the record's risk ratio is the SDK's
\* totalRiskLevel unchanged, isLiquidatable is true exactly when that ratio is
\* >= 1.0, and debts / collaterals hold exactly the non-null values of the SDK
\* maps, in map order, with their names, amounts and USD values unchanged.
C21_SdkRecordCarriedOver ==
    (Returned /\ source = "sdk") =>
        LET account == Get(obligationAccount)
            info == Info
            debtSlots == PresentSlots(account.debts)
            collateralSlots == PresentSlots(account.collaterals)
        IN /\ info.riskLevel = account.totalRiskLevel
           /\ info.isLiquidatable <=> account.totalRiskLevel >= 100
           /\ info.totalBorrowedValueWithWeight = account.totalBorrowedValueWithWeight
           /\ info.totalRequiredCollateralValue = account.totalRequiredCollateralValue
           /\ Len(info.debts) = Cardinality(debtSlots)
           /\ \A k \in 1..Len(info.debts) :
                 LET debt == Get(account.debts[NthPresent(debtSlots, k)])
                 IN /\ info.debts[k].coinName = debt.coinName
                    /\ info.debts[k].coinType = debt.coinType
                    /\ info.debts[k].amount = debt.borrowedAmount
                    /\ info.debts[k].amountCoin = debt.borrowedCoin
                    /\ info.debts[k].valueUsd = debt.borrowedValue
           /\ Len(info.collaterals) = Cardinality(collateralSlots)
           /\ \A k \in 1..Len(info.collaterals) :
                 LET collateral ==
                         Get(account.collaterals[NthPresent(collateralSlots, k)])
                 IN /\ info.collaterals[k].coinName = collateral.coinName
                    /\ info.collaterals[k].coinType = collateral.coinType
                    /\ info.collaterals[k].amount = collateral.depositedAmount
                    /\ info.collaterals[k].amountCoin = collateral.depositedCoin
                    /\ info.collaterals[k].valueUsd = collateral.depositedValue

\* A risk ratio of exactly 1.0 with a null value ahead of the one debt kept.
C21_Witness ==
    /\ Returned
    /\ source = "sdk"
    /\ Info.riskLevel = 100
    /\ Info.isLiquidatable
    /\ Len(Get(obligationAccount).debts) = 2
    /\ Get(obligationAccount).debts[1] = None
    /\ Len(Info.debts) = 1
    /\ Len(Info.collaterals) = 2
    /\ Info.collaterals[1].coinName # Info.collaterals[2].coinName

\* C22: every debt and collateral entry the raw-chain parser builds has USD
\* value 0 and the record it returns has weighted borrow value 0 and required
\* collateral value 0; the path asks the client for objects and dynamic fields
\* only, never for a price.
C22_ChainValuesAreZero ==
    /\ \A i \in 1..Len(debts) : debts[i].valueUsd = 0
    /\ \A i \in 1..Len(collaterals) : collaterals[i].valueUsd = 0
    /\ \A i \in 1..Len(rpcLog) : rpcLog[i].op \in {"getObject", "getDynamicFields"}
    /\ (Returned /\ source = "chain") =>
          /\ Info.debts = debts
          /\ Info.collaterals = collaterals
          /\ \A i \in 1..Len(Info.debts) : Info.debts[i].valueUsd = 0
          /\ \A i \in 1..Len(Info.collaterals) : Info.collaterals[i].valueUsd = 0
          /\ Info.totalBorrowedValueWithWeight = 0
          /\ Info.totalRequiredCollateralValue = 0

\* A chain record with a debt of 10591093 base units and a collateral entry.
C22_Witness ==
    /\ Returned
    /\ source = "chain"
    /\ Len(Info.debts) >= 1
    /\ Len(Info.collaterals) >= 1
    /\ Info.debts[1].amount = 10591093
    /\ Info.debts[1].valueUsd = 0

\* The precision the claim gives an entry: the table's for its short name, or
\* failing that for its lowercased symbol, or failing that the side's default.
ClaimedDecimals(entry, sideDefault) ==
    IF entry.coinName \in {"usdc", "wusdc", "sui"}
    THEN (IF entry.coinName = "sui" THEN 9 ELSE 6)
    ELSE IF ToLowerCase(entry.coinSymbol) \in {"usdc", "wusdc", "sui"}
    THEN (IF ToLowerCase(entry.coinSymbol) = "sui" THEN 9 ELSE 6)
    ELSE sideDefault

\* C23: in the raw-chain parser the precision of an entry is the COIN_DECIMALS
\* entry of its resolved short name or, failing that, of its lowercased
\* symbol; when neither is in the table it is 6 for a debt and 9 for a
\* collateral; the human amount is raw / 10^precision.
C23_ChainDecimals ==
    /\ \A i \in 1..Len(debts) :
          debts[i].amountCoin =
              [raw |-> debts[i].amount, decimals |-> ClaimedDecimals(debts[i], 6)]
    /\ \A i \in 1..Len(collaterals) :
          collaterals[i].amountCoin =
              [raw |-> collaterals[i].amount,
               decimals |-> ClaimedDecimals(collaterals[i], 9)]

\* A debt priced by the table (sui, 9), a collateral priced through its symbol
\* (module Vault, struct SUI).
C23_Witness ==
    /\ Len(debts) = 1
    /\ Len(collaterals) = 1
    /\ debts[1].coinName = "sui"
    /\ debts[1].amountCoin.decimals = 9
    /\ collaterals[1].coinName = "vault"
    /\ collaterals[1].coinSymbol = "SUI"
    /\ collaterals[1].amountCoin.decimals = 9

\* The message the running call's catch block received, and the category of
\* the failure it returned.
RaisedMessage == Get(raised).message
ResultCategory == Get(Get(result).error).category

\* C24: whenever a builder step raises an error carrying the zero-amount code
\* 1537, the call (liquidate or repayBadDebt) returns success = false with the
\* zero-amount message, not the raw message.  Stated for the messages in which
\* 1537 is the only pattern.
C24_ZeroAmountAlwaysReported ==
    (IsSome(raised) /\ RaisedMessage = {"1537"}) =>
        /\ ~Get(result).success
        /\ ResultCategory = "zero-amount"
        /\ Get(Get(result).error).raw = {}

\* The patterns the catch blocks look for.
KnownPatterns ==
    {"770", "1537", "No valid coins", "Insufficient", "Cannot convert undefined",
     "Cannot convert null"}

\* C25: when the message of the error a builder step raised matches none of
\* the known patterns, liquidate and repayBadDebt return success = false with
\* that message as the error, unchanged.
C25_UnmatchedPassedThrough ==
    (IsSome(raised) /\ RaisedMessage \cap KnownPatterns = {}) =>
        /\ IsSome(result)
        /\ ~Get(result).success
        /\ ResultCategory = "raw"
        /\ Get(Get(result).error).raw = RaisedMessage

\* repayBadDebt failed on a message none of the patterns is in.
C25_Witness ==
    /\ repayCalls # <<>>
    /\ IsSome(raised)
    /\ RaisedMessage = {"timeout"}
    /\ ResultCategory = "raw"
    /\ pc = "exited"

\* C26: one ordered rule list classifies builder errors: for every message,
\* those matching several patterns included, liquidate and repayBadDebt assign
\* the same category.  Read off a run: the category the running call returned
\* for the message it caught is the category either catch block gives it.
C26_OneRuleListForBothCalls ==
    IsSome(raised) =>
        /\ ResultCategory
              = Get(LiquidateCatch(RaisedMessage, "usdc", "sui", 1).error).category
        /\ ResultCategory
              = Get(RepayCatch(RaisedMessage, "usdc", 1).error).category

\* C27: whenever the top-level object fetched has no content, or content that
\* is not a move object, the raw-chain parser fails with 'Obligation not
\* found': no table is read, no record is returned, the invocation ends with
\* code 1.  A rejected fetch is fatal in the same way (under its own message).
C27_NotFoundIsFatal ==
    /\ objResponse \in {"nocontent", "notMoveObject"} =>
          /\ thrown = "Obligation not found"
          /\ rpcLog = <<Request("getObject", "obligation")>>
          /\ debts = <<>> /\ collaterals = <<>>
          /\ obligationInfo = None
          /\ liquidateCalls = <<>> /\ repayCalls = <<>>
          /\ pc = "exited" /\ exitCode = 1
    /\ objResponse = "rejected" =>
          /\ thrown = "Failed to query obligation from chain"
          /\ rpcLog = <<Request("getObject", "obligation")>>
          /\ obligationInfo = None
          /\ pc = "exited" /\ exitCode = 1
    /\ (chainCalls # <<>> /\ thrown = "Obligation not found") =>
          objResponse \in {"nocontent", "notMoveObject"}

\* The obligation's object came back with content that is no move object.
C27_Witness ==
    /\ objResponse = "notMoveObject"
    /\ thrown = "Obligation not found"
    /\ pc = "exited"

\* Whether `b` is `a` with at most one element added at its end.
GrewAtEndByAtMostOne(a, b) ==
    \/ b = a
    \/ Len(b) = Len(a) + 1 /\ SubSeq(b, 1, Len(a)) = a

\* The requests of the log in the order the parser makes them: the obligation,
\* then the debts table and its children, then the collaterals table and its
\* children.
RequestRank(request) ==
    CASE request.target = "obligation" -> 1
      [] request.target = "debts" /\ request.op = "getDynamicFields" -> 2
      [] request.target = "debts" -> 3
      [] request.target = "collaterals" /\ request.op = "getDynamicFields" -> 4
      [] OTHER -> 5

\* What holds of the log and the lists in every state of the chain parse.
ChainRequestsInOrder ==
    LET ranks == [i \in 1..Len(rpcLog) |-> RequestRank(rpcLog[i])]
        debtChildRequests == Cardinality({i \in 1..Len(rpcLog) : ranks[i] = 3})
        collateralChildRequests == Cardinality({i \in 1..Len(rpcLog) : ranks[i] = 5})
    IN /\ \A i \in 1..(Len(rpcLog) - 1) :
             /\ ranks[i] <= ranks[i + 1]
             /\ ranks[i] \in {1, 2, 4} => ranks[i] < ranks[i + 1]
       /\ Len(debts) <= debtChildRequests
       /\ debtChildRequests <= debtsEnumerated
       /\ Len(collaterals) <= collateralChildRequests
       /\ collateralChildRequests <= collateralsEnumerated
       /\ collaterals # <<>> => (pc # "chain_debt_child" /\ pc # "chain_debts")

\* What holds of every step of the chain parse.
ChainStepsOneRequest ==
    \/ UNCHANGED <<rpcLog, debts, collaterals>>
    \/ /\ GrewAtEndByAtMostOne(rpcLog, rpcLog')
       /\ GrewAtEndByAtMostOne(debts, debts')
       /\ GrewAtEndByAtMostOne(collaterals, collaterals')
       /\ debts' # debts =>
             /\ rpcLog' = Append(rpcLog, Request("getObject", "debts"))
             /\ collaterals' = collaterals
       /\ collaterals' # collaterals =>
             rpcLog' = Append(rpcLog, Request("getObject", "collaterals"))

\* C28: the network-bound steps of the raw-chain parser are sequential.  Every
\* step makes at most one request and finishes with its response before the
\* next is made; child objects are fetched one per step, each entry placed at
\* the end of its list, so a list is in the order its children were
\* enumerated; every request for the debt table and its children comes before
\* any request for the collateral table.
C28_ChainRequestsSequential ==
    [](ChainRequestsInOrder) /\ [][ChainStepsOneRequest]_vars

\* Both tables read, two children each: seven requests, one after another.
C28_Witness ==
    /\ Returned
    /\ source = "chain"
    /\ Len(Info.debts) = 2
    /\ Len(Info.collaterals) = 2
    /\ Info.debts[1].coinName # Info.debts[2].coinName
    /\ Len(rpcLog) = 7

\* C29: in execute mode a record obtained through the raw-chain fallback never
\* leads to a transaction: its USD values are 0, so the estimate is 0, which
\* is not above 0.10, and main stops (exit 0) before any builder call; a chain
\* record is acted on in force mode only.
C29_ChainRecordNeverExecutes ==
    (Returned /\ source = "chain") =>
        /\ \A i \in 1..Len(estimateCalls) :
              /\ estimateCalls[i].estimatedProfitUsd = 0
              /\ ~estimateCalls[i].profitable
        /\ mode = "execute" =>
              /\ liquidateCalls = <<>>
              /\ repayCalls = <<>>
              /\ txSteps = <<>>
              /\ result = None
              /\ estimateCalls # <<>> => (pc = "exited" /\ exitCode = 0)
        /\ (liquidateCalls # <<>> \/ repayCalls # <<>>) => mode = "force"

\* A liquidatable chain record in execute mode, stopped at the profit gate.
C29_Witness ==
    /\ Returned
    /\ source = "chain"
    /\ mode = "execute"
    /\ Info.isLiquidatable
    /\ Len(estimateCalls) = 1
    /\ estimateCalls[1].estimatedProfitUsd = 0
    /\ pc = "exited"
    /\ exitCode = 0

\* C30: in every mode, force included, a builder call is made only for a
\* record with at least one debt entry: liquidate for a record whose debts and
\* collaterals are both non-empty, repayBadDebt for a record with debts and no
\* collateral; a record with no debts ends the invocation with no call to
\* either and no builder step.
C30_BuilderCallNeedsDebt ==
    /\ liquidateCalls # <<>> =>
          /\ Len(Info.debts) >= 1
          /\ Len(Info.collaterals) >= 1
    /\ repayCalls # <<>> =>
          /\ Len(Info.debts) >= 1
          /\ Len(Info.collaterals) = 0
    /\ (Returned /\ Len(Info.debts) = 0) =>
          /\ liquidateCalls = <<>>
          /\ repayCalls = <<>>
          /\ estimateCalls = <<>>
          /\ txSteps = <<>>
          /\ result = None
          /\ pc \in {"classify", "dispatch", "exited"}

\* Force mode on a record with collateral and no debt: main gives up.
C30_Witness ==
    /\ Returned
    /\ mode = "force"
    /\ Len(Info.debts) = 0
    /\ Len(Info.collaterals) >= 1
    /\ pc = "exited"
    /\ exitCode = 1
    /\ thrown = ""

====
